---- MODULE Spec2Model ----
(***************************************************************************)
(* Influence dashboard: the three influence estimators of                  *)
(* src/core/influence.py (TracIn, DataInf, Kronfluence), the training loop *)
(* of src/core/train.py and the part of the RunPod handler                 *)
(* (src/runpod_worker/handler.py) that drives them.                        *)
(*                                                                         *)
(* The language model itself is opaque.  Its loss gradient is a table      *)
(* grads[w][x][p]: under adapter weights w, example x gives parameter p    *)
(* the flattened gradient grads[w][x][p], a sequence of its elements, or   *)
(* NoGrad when param.grad is None.  Every adapter parameter holds one      *)
(* element.  Floating point is modelled by exact rationals                 *)
(* <<numerator, denominator>>.                                             *)
(***************************************************************************)
EXTENDS Integers, Sequences, FiniteSets, TLC

(***************************************************************************)
(* Bounds of the model.                                                    *)
(***************************************************************************)
MaxTrain == 2
MaxEval == 1
MaxCkpt == 2
MaxEpochs == 20

\* param.grad is None
NoGrad == <<>>

\* the outcome of a call that raised
RaisedResult == [raised |-> TRUE]

(***************************************************************************)
(* Exact rational arithmetic.                                              *)
(***************************************************************************)
Abs(a) == IF a < 0 THEN -a ELSE a

RECURSIVE GCD(_, _)
GCD(a, b) == IF b = 0 THEN a ELSE GCD(b, a % b)

Rat(n, d) ==
    LET g == GCD(Abs(n), Abs(d))
        s == IF d < 0 THEN -1 ELSE 1
    IN  <<s * (n \div g), s * (d \div g)>>

R(n) == <<n, 1>>
Zero == R(0)
One == R(1)

RAdd(x, y) ==
    LET g == GCD(x[2], y[2])
        l == (x[2] \div g) * y[2]
    IN  Rat(x[1] * (l \div x[2]) + y[1] * (l \div y[2]), l)

RNeg(x) == <<-x[1], x[2]>>
RSub(x, y) == RAdd(x, RNeg(y))

RMul(x, y) ==
    LET g1 == GCD(Abs(x[1]), y[2])
        g2 == GCD(Abs(y[1]), x[2])
    IN  Rat((x[1] \div g1) * (y[1] \div g2), (x[2] \div g2) * (y[2] \div g1))

\* x / y; the caller checks y # 0 first (Python raises ZeroDivisionError)
RDiv(x, y) == RMul(x, Rat(y[2], y[1]))

RLess(x, y) == x[1] * y[2] < y[1] * x[2]
RLeq(x, y) == x[1] * y[2] <= y[1] * x[2]
RAbs(x) == <<Abs(x[1]), x[2]>>
RMax(x, y) == IF RLess(x, y) THEN y ELSE x

(***************************************************************************)
(* Vectors are sequences of rationals, matrices sequences of rows.         *)
(***************************************************************************)
RECURSIVE SeqOf(_, _)
\* the sequence <<Op(1), ..., Op(n)>>, built element by element
SeqOf(Op(_), n) == IF n = 0 THEN <<>> ELSE Append(SeqOf(Op, n - 1), Op(n))

RECURSIVE RSum(_)
RSum(s) == IF s = <<>> THEN Zero ELSE RAdd(Head(s), RSum(Tail(s)))

Dot(u, v) == RSum(SeqOf(LAMBDA k : RMul(u[k], v[k]), Len(u)))

NRows(M) == Len(M)
NCols(M) == IF M = <<>> THEN 0 ELSE Len(M[1])

Transpose(M) == SeqOf(LAMBDA c : SeqOf(LAMBDA r : M[r][c], NRows(M)), NCols(M))

\* (a x b) @ (b x c)
MatMul(A, B) ==
    SeqOf(LAMBDA r :
            SeqOf(LAMBDA c : RSum(SeqOf(LAMBDA k : RMul(A[r][k], B[k][c]), NCols(A))),
                  NCols(B)),
          NRows(A))

\* row vector @ matrix
VecMat(v, M) == SeqOf(LAMBDA c : RSum(SeqOf(LAMBDA k : RMul(v[k], M[k][c]), Len(v))), NCols(M))

MatScale(c, M) == SeqOf(LAMBDA r : SeqOf(LAMBDA k : RMul(c, M[r][k]), NCols(M)), NRows(M))

MatAdd(A, B) ==
    SeqOf(LAMBDA r : SeqOf(LAMBDA k : RAdd(A[r][k], B[r][k]), NCols(A)), NRows(A))

Eye(d) == SeqOf(LAMBDA r : SeqOf(LAMBDA c : IF r = c THEN One ELSE Zero, d), d)

DropIdx(s, i) == SeqOf(LAMBDA k : IF k < i THEN s[k] ELSE s[k + 1], Len(s) - 1)

Minor(M, i, j) == SeqOf(LAMBDA r : DropIdx(DropIdx(M, i)[r], j), Len(M) - 1)

RECURSIVE Det(_)
Det(M) ==
    IF Len(M) = 0 THEN One
    ELSE RSum(SeqOf(LAMBDA j : RMul(IF j % 2 = 1 THEN M[1][j] ELSE RNeg(M[1][j]),
                                    Det(Minor(M, 1, j))),
                    Len(M)))

Cofactor(M, i, j) ==
    IF (i + j) % 2 = 0 THEN Det(Minor(M, i, j)) ELSE RNeg(Det(Minor(M, i, j)))

\* torch.linalg.inv: the inverse of a square matrix, an error when it is singular
Singular(M) == Det(M) = Zero

MatInv(M) ==
    LET det == Det(M)
    IN  SeqOf(LAMBDA r : SeqOf(LAMBDA c : RDiv(Cofactor(M, c, r), det), Len(M)), Len(M))

(***************************************************************************)
(* State.  The estimator variables hold one call of an estimator; the job  *)
(* variables hold one run of the handler's training pipeline.  The         *)
(* handler's lists checkpoints and checkpoint_lrs are the very lists       *)
(* compute_tracin receives as checkpoints and learning_rates.              *)
(***************************************************************************)
VARIABLES
    method,          \* influence_method of the call
    params,          \* model.named_parameters(): the trainable parameter names
    training_data,   \* training examples, in input order
    eval_data,       \* eval examples, in input order
    grads,           \* the loss gradients: grads[w][x][p]
    lambda_reg,      \* compute_datainf's lambda_reg
    checkpoints,     \* compute_tracin's checkpoints (adapter weights)
    learning_rates,  \* compute_tracin's learning_rates
    heap,            \* the value of every tensor: heap[id]
    pc,              \* position in the estimator
    ckpt_idx,        \* compute_tracin: index of the checkpoint in progress
    train_grads,     \* compute_tracin: training gradients of this checkpoint
    eval_idx,        \* compute_tracin: next eval example
    scores,          \* compute_tracin: the score grid being accumulated
    result,          \* what the estimator returned, or that it raised
    req,             \* the request: its hyperparams and checkpoint_interval
    hooks,           \* train_loop: which of its two callbacks it was given
    epoch_loss,      \* train_loop: the loss summed over the batches of the epoch
    batch_loss,      \* train_loop: the loss of the batch in progress
    progress_calls,  \* the arguments progress_callback was called with
    exception,       \* the exception on its way to the handler's except branches
    yielded,         \* the updates the handler has yielded
    estimator_calls, \* the estimators the handler has called
    load_calls,      \* the calls of load_model_and_tokenizer
    jpc,             \* position in the handler and in train_loop
    epoch,           \* train_loop: the epoch in progress
    num_batches,     \* train_loop: batches done in this epoch
    opt_steps,       \* optimizer.step() calls so far
    sched_steps,     \* scheduler.step() calls so far
    loss_history,    \* train_loop: one entry for each finished epoch
    pending_progress,\* handler: _pending_progress
    hook_calls,      \* the epochs checkpoint_callback was called with
    job_result,      \* what the handler returned
    grad_buf,        \* param.grad of every adapter parameter
    extracted        \* what the last gradient extraction returned

estVars == <<method, params, training_data, eval_data, grads, lambda_reg, checkpoints,
             learning_rates, heap, pc, ckpt_idx, train_grads, eval_idx, scores, result>>

jobVars == <<req, hooks, jpc, epoch, num_batches, epoch_loss, batch_loss, opt_steps,
             sched_steps, loss_history, progress_calls, pending_progress, hook_calls,
             exception, yielded, estimator_calls, load_calls, job_result>>

gradVars == <<grad_buf, extracted>>

vars == <<estVars, jobVars, gradVars>>

(***************************************************************************)
(* The model's tensors.  A state dict maps a key to a tensor; a tensor is  *)
(* an index of heap, and heap[id] is the value it holds now.  The value of *)
(* the adapter tensor stands for the whole of the adapter's weights.       *)
(***************************************************************************)
\* model.state_dict(): the frozen base weight and the adapter weight
StateDict == [key \in {"base_layer.weight", "lora_A.weight"} |->
                 IF key = "base_layer.weight" THEN 1 ELSE 2]

\* "lora" in k.lower()
ContainsLora(key) == key \in {"lora_A.weight"}

LoraKeys == {key \in DOMAIN StateDict : ContainsLora(key)}

\* the adapter weights the model holds
AdapterWeights == heap[StateDict["lora_A.weight"]]

\* a load that leaves the model's tensors as they were
LoadStateDictNone(h, ckpt_state) == h

\* model.load_state_dict(ckpt_state, strict=False): a copy into the model's own tensors
LoadStateDict(h, ckpt_state) ==
    SeqOf(LAMBDA id :
            IF \E key \in DOMAIN ckpt_state \cap DOMAIN StateDict : StateDict[key] = id
            THEN h[ckpt_state[CHOOSE key \in DOMAIN ckpt_state \cap DOMAIN StateDict :
                                 StateDict[key] = id]]
            ELSE h[id],
          Len(h))

(***************************************************************************)
(* Gradient extraction.                                                    *)
(***************************************************************************)
\* name.rsplit(".", 1)[0]: a parameter name is <<module path, leaf>>
ModuleName(name) == name[1]

RECURSIVE Collect(_, _, _)
\* torch.cat of the gradients row g holds at the indices idxs, those without one skipped
Collect(g, idxs, k) ==
    IF k > Len(idxs) THEN <<>>
    ELSE (IF g[idxs[k]] = NoGrad THEN <<>> ELSE g[idxs[k]]) \o Collect(g, idxs, k + 1)

AllIdx == SeqOf(LAMBDA p : p, Len(params))

\* buffers that are never cleared
KeepGrad(buf) == buf

\* model.zero_grad(): every param.grad is set to None
ZeroGrad(buf) == SeqOf(LAMBDA p : NoGrad, Len(buf))

\* loss.backward(): a gradient is stored where param.grad is None, added where it is not
Backward(buf, g) ==
    SeqOf(LAMBDA p : IF g[p] = NoGrad THEN buf[p]
                     ELSE IF buf[p] = NoGrad THEN g[p]
                     ELSE <<RAdd(buf[p][1], g[p][1])>>,
          Len(buf))

\* param.grad of every parameter after zero_grad() and the backward pass of example x
ParamGrads(w, x) == Backward(ZeroGrad(grad_buf), grads[w][x.id])

\* the buffers after n extractions in a row
AfterExtractions(n) == IF n > 0 THEN ZeroGrad(grad_buf) ELSE grad_buf

\* compute_per_example_grad: the flattened gradients of the parameters that have one
PerExampleGrad(w, x) == Collect(ParamGrads(w, x), AllIdx, 1)

\* compute_per_example_grad raises when no parameter has a gradient
GradRaises(w, x) == PerExampleGrad(w, x) = <<>>

\* td["question"], ed["question"]: KeyError for an example without the field
FormatRaises(x) == "question" \notin DOMAIN x

KeyErrorIn(data) == \E j \in 1..Len(data) : FormatRaises(data[j])

\* s[:80]; a string is the sequence of its characters
Truncate(s) == SubSeq(s, 1, IF Len(s) < 80 THEN Len(s) ELSE 80)

\* f"train_{i}", f"eval_{i}"
Placeholder(prefix, i) == prefix \o <<ToString(i)>>

\* labels without the cut at 80 characters
BuildLabelsWhole(data, prefix) ==
    SeqOf(LAMBDA k : IF "question" \in DOMAIN data[k] THEN data[k].question
                     ELSE Placeholder(prefix, k - 1),
          Len(data))

\* _build_labels: d.get("question", f"train_{i}")[:80] for i, d in enumerate(data)
BuildLabels(data, prefix) ==
    SeqOf(LAMBDA k : Truncate(IF "question" \in DOMAIN data[k] THEN data[k].question
                              ELSE Placeholder(prefix, k - 1)),
          Len(data))

TrainPrefix == <<"t", "r", "a", "i", "n", "_">>
EvalPrefix == <<"e", "v", "a", "l", "_">>

InfluenceMatrix(sc) ==
    [raised |-> FALSE,
     training_labels |-> BuildLabels(training_data, TrainPrefix),
     eval_labels |-> BuildLabels(eval_data, EvalPrefix),
     scores |-> sc]

(***************************************************************************)
(* DataInf.                                                                *)
(***************************************************************************)
SameLen(vs) == \A i, j \in 1..Len(vs) : Len(vs[i]) = Len(vs[j])

\* the covariance without the division by n
CovarianceNoMean(G, lam) ==
    MatAdd(MatMul(Transpose(G), G), MatScale(lam, Eye(NCols(G))))

\* (G^T G) / n + lambda * I
Covariance(G, lam) ==
    MatAdd(MatScale(Rat(1, NRows(G)), MatMul(Transpose(G), G)), MatScale(lam, Eye(NCols(G))))

\* the row without the product by G.T
InfluenceRowNoTrain(eg, cov_inv, G) == VecMat(eg, cov_inv)

\* eval_grad @ cov_inv @ G.T
InfluenceRow(eg, cov_inv, G) == VecMat(VecMat(eg, cov_inv), Transpose(G))

TrainGradsOf(w) == SeqOf(LAMBDA j : PerExampleGrad(w, training_data[j]), Len(training_data))
EvalGradsOf(w) == SeqOf(LAMBDA i : PerExampleGrad(w, eval_data[i]), Len(eval_data))

\* the calls of compute_datainf that raise
DataInfRaises(w, lam) ==
    LET tg == TrainGradsOf(w)
        eg == EvalGradsOf(w)
    IN  \/ KeyErrorIn(training_data) \/ KeyErrorIn(eval_data)
        \/ \E j \in 1..Len(tg) : tg[j] = <<>>      \* no gradients found
        \/ tg = <<>>                               \* torch.stack of an empty list
        \/ ~SameLen(tg)                            \* torch.stack of unequal sizes
        \/ Singular(Covariance(tg, lam))           \* torch.linalg.inv
        \/ \E i \in 1..Len(eg) : eg[i] = <<>> \/ Len(eg[i]) # NCols(tg)

\* the scores with the damping fixed, whatever lambda_reg is
DataInfScoresFixedLambda(w, lam) ==
    LET G == TrainGradsOf(w)
        eg == EvalGradsOf(w)
        cov_inv == MatInv(Covariance(G, One))
    IN  SeqOf(LAMBDA i : InfluenceRow(eg[i], cov_inv, G), Len(eg))

DataInfScores(w, lam) ==
    LET G == TrainGradsOf(w)
        eg == EvalGradsOf(w)
        cov_inv == MatInv(Covariance(G, lam))
    IN  SeqOf(LAMBDA i : InfluenceRow(eg[i], cov_inv, G), Len(eg))

compute_datainf(w, lam) ==
    IF DataInfRaises(w, lam) THEN RaisedResult ELSE InfluenceMatrix(DataInfScores(w, lam))

(***************************************************************************)
(* Kronfluence.                                                            *)
(***************************************************************************)
\* the parameters of module m, in named_parameters order
IdxOf(m) == SelectSeq(AllIdx, LAMBDA p : ModuleName(params[p]) = m)

\* _get_module_grads: module_grads[m], the concatenated gradients of m's parameters
ModGrad(w, x, m) == Collect(ParamGrads(w, x), IdxOf(m), 1)

\* the keys of _get_module_grads(x)
ModuleKeys(w, x) ==
    {m \in {ModuleName(params[p]) : p \in 1..Len(params)} : ModGrad(w, x, m) # <<>>}

\* all_module_names
AllModuleNames(w) == UNION {ModuleKeys(w, training_data[j]) : j \in 1..Len(training_data)}

Min(S) == CHOOSE a \in S : \A b \in S : a <= b

RECURSIVE Sorted(_)
\* sorted(S)
Sorted(S) == IF S = {} THEN <<>> ELSE <<Min(S)>> \o Sorted(S \ {Min(S)})

\* grads_list of module m: the training examples that have m, in input order
ModTrainMat(w, m) ==
    LET have == SelectSeq(SeqOf(LAMBDA j : j, Len(training_data)),
                          LAMBDA j : m \in ModuleKeys(w, training_data[j]))
    IN  SeqOf(LAMBDA k : ModGrad(w, training_data[have[k]], m), Len(have))

\* a damping other than DataInf's default
KronLambdaOther == Rat(1, 100)

\* lambda_reg = 1e-3
KronLambda == Rat(1, 1000)

ModCovInv(w, m) == MatInv(Covariance(ModTrainMat(w, m), KronLambda))

\* eg @ cov_inv @ G_mod.T
ModContribution(w, x, m) == InfluenceRow(ModGrad(w, x, m), ModCovInv(w, m), ModTrainMat(w, m))

\* row += c, with torch's broadcasting of a one-element c
AddInPlace(row, c) ==
    SeqOf(LAMBDA j : RAdd(row[j], IF Len(c) = Len(row) THEN c[j] ELSE c[1]), Len(row))

RECURSIVE KronRow(_, _, _, _)
\* the loop over module_names from position k on, for eval example x
KronRow(w, x, mods, k) ==
    IF k > Len(mods) THEN SeqOf(LAMBDA j : Zero, Len(training_data))
    ELSE LET rest == KronRow(w, x, mods, k + 1)
         IN  IF mods[k] \notin ModuleKeys(w, x) THEN rest
             ELSE AddInPlace(rest, ModContribution(w, x, mods[k]))

\* the calls of compute_kronfluence that raise
KronRaises(w) ==
    LET mods == AllModuleNames(w)
    IN  \/ KeyErrorIn(training_data) \/ KeyErrorIn(eval_data)
        \/ \E m \in mods : ~SameLen(ModTrainMat(w, m))                 \* torch.stack
        \/ \E m \in mods : Singular(Covariance(ModTrainMat(w, m), KronLambda))
        \/ \E i \in 1..Len(eval_data) : \E m \in mods \cap ModuleKeys(w, eval_data[i]) :
              \/ Len(ModGrad(w, eval_data[i], m)) # NCols(ModTrainMat(w, m))
              \/ NRows(ModTrainMat(w, m)) \notin {Len(training_data), 1}  \* row += ...

KronScores(w) ==
    LET mods == Sorted(AllModuleNames(w))
    IN  SeqOf(LAMBDA i : KronRow(w, eval_data[i], mods, 1), Len(eval_data))

compute_kronfluence(w) ==
    IF KronRaises(w) THEN RaisedResult ELSE InfluenceMatrix(KronScores(w))

(***************************************************************************)
(* TracIn, one step of compute_tracin at a time.                           *)
(***************************************************************************)
\* zip(checkpoints, learning_rates) stops at the shorter of the two
NumPairs == IF Len(checkpoints) < Len(learning_rates) THEN Len(checkpoints)
            ELSE Len(learning_rates)

\* where the loops go once the eval loop of checkpoint k is over
AfterEvalLoop(k) == IF k < NumPairs THEN "load" ELSE "return"

\* where the loops go once the training gradients of checkpoint k are there
AfterTrainLoop(k) == IF Len(eval_data) > 0 THEN "eval" ELSE AfterEvalLoop(k)

\* the accumulation without the learning rate
AccumulateNoLr(sc, ei, lr, eval_grad, tgs) ==
    [sc EXCEPT ![ei] = SeqOf(LAMBDA ti : RAdd(sc[ei][ti], Dot(eval_grad, tgs[ti])), Len(tgs))]

\* scores[ei, ti] += lr * torch.dot(eval_grad, tg), for every ti
Accumulate(sc, ei, lr, eval_grad, tgs) ==
    [sc EXCEPT ![ei] = SeqOf(LAMBDA ti : RAdd(sc[ei][ti], RMul(lr, Dot(eval_grad, tgs[ti]))),
                             Len(tgs))]

\* lines 151-154: labels, sizes and the all-zero grid
TracinStart ==
    /\ method = "tracin" /\ pc = "start"
    /\ scores' = SeqOf(LAMBDA ei : SeqOf(LAMBDA ti : Zero, Len(training_data)),
                       Len(eval_data))
    /\ ckpt_idx' = 1
    /\ pc' = IF NumPairs > 0 THEN "load" ELSE "return"
    /\ UNCHANGED <<method, params, training_data, eval_data, grads, lambda_reg, checkpoints,
                   learning_rates, heap, train_grads, eval_idx, result>>
    /\ UNCHANGED jobVars
    /\ UNCHANGED gradVars


TracinLoad ==
    /\ method = "tracin" /\ pc = "load"
    /\ heap' = LoadStateDict(heap, checkpoints[ckpt_idx])
    /\ train_grads' = <<>>
    /\ eval_idx' = 1
    /\ pc' = "train"
    /\ UNCHANGED ckpt_idx
    /\ UNCHANGED <<method, params, training_data, eval_data, grads, lambda_reg, checkpoints,
                   learning_rates, scores, result>>
    /\ UNCHANGED jobVars
    /\ UNCHANGED gradVars

\* lines 161-165: the gradients of the training examples under the loaded weights
TracinTrainGrads ==
    /\ method = "tracin" /\ pc = "train"
    /\ IF \/ KeyErrorIn(training_data)
          \/ \E j \in 1..Len(training_data) : GradRaises(AdapterWeights, training_data[j])
       THEN /\ result' = RaisedResult
            /\ pc' = "done"
            /\ UNCHANGED <<train_grads, ckpt_idx>>
       ELSE /\ train_grads' = TrainGradsOf(AdapterWeights)
            /\ pc' = AfterTrainLoop(ckpt_idx)
            /\ ckpt_idx' = IF pc' = "load" THEN ckpt_idx + 1 ELSE ckpt_idx
            /\ UNCHANGED result
    /\ UNCHANGED <<method, params, training_data, eval_data, grads, lambda_reg, checkpoints,
                   learning_rates, heap, eval_idx, scores>>
    /\ UNCHANGED jobVars
    /\ grad_buf' = AfterExtractions(Len(training_data)) /\ UNCHANGED extracted

\* lines 168-172: the gradient of the next eval example and its row of dot products
TracinEval ==
    /\ method = "tracin" /\ pc = "eval"
    /\ LET ed == eval_data[eval_idx]
           eval_grad == PerExampleGrad(AdapterWeights, ed)
       IN  IF \/ FormatRaises(ed)
              \/ GradRaises(AdapterWeights, ed)
              \/ \E ti \in 1..Len(train_grads) : Len(train_grads[ti]) # Len(eval_grad)
           THEN /\ result' = RaisedResult
                /\ pc' = "done"
                /\ UNCHANGED <<scores, eval_idx, ckpt_idx>>
           ELSE /\ scores' = Accumulate(scores, eval_idx, learning_rates[ckpt_idx],
                                        eval_grad, train_grads)
                /\ eval_idx' = eval_idx + 1
                /\ pc' = IF eval_idx < Len(eval_data) THEN "eval" ELSE AfterEvalLoop(ckpt_idx)
                /\ ckpt_idx' = IF pc' = "load" THEN ckpt_idx + 1 ELSE ckpt_idx
                /\ UNCHANGED result
    /\ UNCHANGED <<method, params, training_data, eval_data, grads, lambda_reg, checkpoints,
                   learning_rates, heap, train_grads>>
    /\ UNCHANGED jobVars
    /\ grad_buf' = AfterExtractions(1) /\ UNCHANGED extracted

\* lines 174-178
TracinReturn ==
    /\ method = "tracin" /\ pc = "return"
    /\ result' = InfluenceMatrix(scores)
    /\ pc' = "done"
    /\ UNCHANGED <<method, params, training_data, eval_data, grads, lambda_reg, checkpoints,
                   learning_rates, heap, ckpt_idx, train_grads, eval_idx, scores>>
    /\ UNCHANGED jobVars
    /\ UNCHANGED gradVars

\* one call of compute_datainf
DataInfCall ==
    /\ method = "datainf" /\ pc = "start"
    /\ result' = compute_datainf(AdapterWeights, lambda_reg)
    /\ pc' = "done"
    /\ UNCHANGED <<method, params, training_data, eval_data, grads, lambda_reg, checkpoints,
                   learning_rates, heap, ckpt_idx, train_grads, eval_idx, scores>>
    /\ UNCHANGED jobVars
    /\ grad_buf' = AfterExtractions(Len(training_data)) /\ UNCHANGED extracted

\* one call of compute_kronfluence
KronfluenceCall ==
    /\ method = "kronfluence" /\ pc = "start"
    /\ result' = compute_kronfluence(AdapterWeights)
    /\ pc' = "done"
    /\ UNCHANGED <<method, params, training_data, eval_data, grads, lambda_reg, checkpoints,
                   learning_rates, heap, ckpt_idx, train_grads, eval_idx, scores>>
    /\ UNCHANGED jobVars
    /\ grad_buf' = AfterExtractions(Len(training_data) + Len(eval_data)) /\ UNCHANGED extracted

(***************************************************************************)
(* The calls checked: small adapters, data sets and gradient tables.       *)
(***************************************************************************)
\* adapters: one parameter; one module of two parameters; two modules
Layouts == { << <<1, "weight">> >>,
             << <<1, "weight">>, <<1, "bias">> >>,
             << <<1, "weight">>, <<2, "weight">> >> }

TrainCells == {NoGrad, <<R(0)>>, <<R(1)>>}
EvalCells == {NoGrad, <<R(1)>>}
TracinCells == {<<R(1)>>, <<R(2)>>}
Lambdas == {Rat(1, 4), One}

\* the adapter weights a model can hold
WeightValues == {0, 1}

Examples(first, n) ==
    SeqOf(LAMBDA i : [id |-> first + i, question |-> <<ToString(first + i)>>], n)

LrChoices(K) == {[k \in 1..K |-> One], [k \in 1..K |-> Rat(1, 10 * k)]}

InitCommon ==
    /\ ckpt_idx = 0
    /\ train_grads = <<>>
    /\ eval_idx = 0
    /\ scores = <<>>
    /\ result = [raised |-> FALSE]
    /\ grad_buf = SeqOf(LAMBDA p : NoGrad, Len(params))
    /\ extracted = [kind |-> "none"]

\* no job: an estimator called on its own
NoJob ==
    /\ req = [num_epochs |-> 0]
    /\ hooks = [checkpoint_callback |-> FALSE, progress_callback |-> FALSE]
    /\ jpc = "none"
    /\ epoch_loss = Zero
    /\ batch_loss = Zero
    /\ progress_calls = <<>>
    /\ exception = "none"
    /\ yielded = <<>>
    /\ estimator_calls = <<>>
    /\ load_calls = 0
    /\ epoch = 0
    /\ num_batches = 0
    /\ opt_steps = 0
    /\ sched_steps = 0
    /\ loss_history = <<>>
    /\ pending_progress = <<>>
    /\ hook_calls = <<>>
    /\ job_result = [status |-> "none"]

InitTracin ==
    /\ method = "tracin"
    /\ params = << <<1, "weight">> >>
    /\ lambda_reg = Rat(1, 1000)
    /\ \E nt \in 0..MaxTrain, ne \in 0..MaxEval, K \in 0..MaxCkpt :
          /\ training_data = Examples(0, nt)
          /\ eval_data = Examples(nt, ne)
          /\ \E ws \in [1..K -> WeightValues] :
                /\ heap = <<0, 0>> \o ws
                /\ checkpoints = SeqOf(LAMBDA k : [key \in LoraKeys |-> 2 + k], K)
          /\ learning_rates \in LrChoices(K)
          /\ grads \in [WeightValues -> [1..(nt + ne) -> [1..1 -> TracinCells]]]
    /\ pc = "start"
    /\ InitCommon

InitClosedForm ==
    /\ method \in {"datainf", "kronfluence"}
    /\ params \in Layouts
    /\ lambda_reg \in (IF method = "datainf" THEN Lambdas ELSE {Rat(1, 1000)})
    /\ heap = <<0, 0>>
    /\ checkpoints = <<>>
    /\ learning_rates = <<>>
    /\ \E nt \in 0..MaxTrain, ne \in 0..MaxEval :
          /\ training_data = Examples(0, nt)
          /\ eval_data = Examples(nt, ne)
          /\ \E tg \in [1..nt -> [1..Len(params) -> TrainCells]],
                eg \in [1..ne -> [1..Len(params) -> EvalCells]] :
                grads = [w \in {0} |-> [x \in 1..(nt + ne) |->
                                          IF x <= nt THEN tg[x] ELSE eg[x - nt]]]
    /\ pc = "start"
    /\ InitCommon

InitEst == (InitTracin \/ InitClosedForm) /\ NoJob

NextEst ==
    \/ TracinStart
    \/ TracinLoad
    \/ TracinTrainGrads
    \/ TracinEval
    \/ TracinReturn
    \/ DataInfCall
    \/ KronfluenceCall

SpecEst == InitEst /\ [][NextEst]_vars

(***************************************************************************)
(* The estimators called on examples with and without a question, short    *)
(* and long, every gradient present.                                       *)
(***************************************************************************)
\* a question of n characters
QuestionOf(n) == SeqOf(LAMBDA k : ToString(k % 10), n)

\* question lengths around the cut of _build_labels; 0 stands for no question field
QuestionLengths == {0, 3, 80, 81}

ExampleOf(id, n) == IF n = 0 THEN [id |-> id] ELSE [id |-> id, question |-> QuestionOf(n)]

InitLabels ==
    /\ method \in {"tracin", "datainf", "kronfluence"}
    /\ params = << <<1, "weight">> >>
    /\ lambda_reg = Rat(1, 1000)
    /\ \E nt \in 0..MaxTrain, ne \in 0..MaxEval :
          /\ \E qs \in [1..(nt + ne) -> QuestionLengths] :
                /\ training_data = SeqOf(LAMBDA j : ExampleOf(j, qs[j]), nt)
                /\ eval_data = SeqOf(LAMBDA i : ExampleOf(nt + i, qs[nt + i]), ne)
          /\ grads = [w \in {0} |-> [x \in 1..(nt + ne) |-> << <<R(1)>> >>]]
    /\ \E K \in 0..1 :
          /\ K = 1 => method = "tracin"
          /\ heap = <<0, 0>> \o SeqOf(LAMBDA k : 0, K)
          /\ checkpoints = SeqOf(LAMBDA k : [key \in LoraKeys |-> 2 + k], K)
          /\ learning_rates = SeqOf(LAMBDA k : One, K)
    /\ pc = "start"
    /\ InitCommon
    /\ NoJob

SpecLabels == InitLabels /\ [][NextEst]_vars

(***************************************************************************)
(* Gradient extraction on its own: any sequence of calls of                *)
(* compute_per_example_grad and of Kronfluence's _get_module_grads on the  *)
(* examples of a data set, the model's weights fixed.                      *)
(***************************************************************************)
\* one call of compute_per_example_grad
ExtractFlat ==
    /\ pc = "extract"
    /\ \E j \in 1..Len(training_data) :
          LET x == training_data[j]
              flat == PerExampleGrad(AdapterWeights, x)
          IN  /\ extracted' = IF flat = <<>>
                              THEN [kind |-> "flat", id |-> x.id, raised |-> TRUE]
                              ELSE [kind |-> "flat", id |-> x.id, raised |-> FALSE,
                                    grad |-> flat]
              /\ grad_buf' = ZeroGrad(ParamGrads(AdapterWeights, x))
    /\ UNCHANGED estVars
    /\ UNCHANGED jobVars

\* one call of _get_module_grads
ExtractModules ==
    /\ pc = "extract"
    /\ \E j \in 1..Len(training_data) :
          LET x == training_data[j]
          IN  /\ extracted' = [kind |-> "modules", id |-> x.id, raised |-> FALSE,
                               grad |-> [m \in ModuleKeys(AdapterWeights, x) |->
                                           ModGrad(AdapterWeights, x, m)]]
              /\ grad_buf' = ZeroGrad(ParamGrads(AdapterWeights, x))
    /\ UNCHANGED estVars
    /\ UNCHANGED jobVars

InitGrad ==
    /\ method = "none"
    /\ params \in Layouts
    /\ lambda_reg = Rat(1, 1000)
    /\ heap = <<0, 0>>
    /\ checkpoints = <<>>
    /\ learning_rates = <<>>
    /\ \E n \in 1..MaxTrain :
          /\ training_data = Examples(0, n)
          /\ eval_data = <<>>
          /\ \E tg \in [1..n -> [1..Len(params) -> TrainCells]] :
                grads = [w \in {0} |-> tg]
    /\ pc = "extract"
    /\ InitCommon
    /\ NoJob

NextGrad ==
    \/ ExtractFlat
    \/ ExtractModules

SpecGrad == InitGrad /\ [][NextGrad]_vars

(***************************************************************************)
(* The handler and train_loop.  SpecHandler is the handler from the        *)
(* arrival of a request: handler.py:73 calls load_model_and_tokenizer with *)
(* hf_token=, which the function of src/core/models.py:50-54 does not      *)
(* accept, so it ends at the load.  SpecTrain is the handler from its call *)
(* of train_loop on, with a model and an adapter loaded; SpecLoop is       *)
(* train_loop alone, each hook given or not.                               *)
(* The adapter weight counts the optimizer updates it has received, so     *)
(* that weights taken at different moments of training differ.             *)
(***************************************************************************)
Methods == {"tracin", "datainf", "kronfluence"}
BatchSizes == {1, 2}
WarmupRatios == {Zero, Rat(1, 10), Rat(1, 2), One}
CheckpointIntervals == {5, 10}

\* Hyperparams.learning_rate
DefaultLearningRate == Rat(2, 100000)

\* the most optimizer updates a job makes
MaxSteps == MaxEpochs * MaxTrain

\* the batches of an epoch with the partial last batch dropped
BatchesPerEpochDropLast == Len(training_data) \div req.batch_size

\* math.ceil(len(dataset) / hp.batch_size)
BatchesPerEpoch == (Len(training_data) + req.batch_size - 1) \div req.batch_size

\* optimizer.step(): the adapter tensor is updated in place
OptimizerStep(h) == [h EXCEPT ![StateDict["lora_A.weight"]] = @ + 1]

\* v.clone() of every adapter tensor: new tensors holding the present values
ClonedHeap(h) == Append(h, h[StateDict["lora_A.weight"]])

\* a snapshot that keeps the model's own tensors
LoraStateDictAliased(h) == [key \in LoraKeys |-> StateDict[key]]

\* {k: v.clone().cpu() for k, v in state_dict().items() if "lora" in k.lower()}
LoraStateDict(h) == [key \in LoraKeys |-> Len(h) + 1]

\* the hook train_loop was given, or None
HookRegistered == hooks.checkpoint_callback

\* the hooks the handler gives train_loop: checkpoint_callback for tracin only
HandlerHooks == [checkpoint_callback |-> method = "tracin", progress_callback |-> TRUE]

\* epoch % 10 == 0
CheckpointDue(e) == e % 10 = 0

\* frac = epoch / total_epochs
Frac(e) == Rat(e, req.num_epochs)

\* the division by 1 - warmup_ratio, reached when frac is not below warmup_ratio
CheckpointLrRaises(e) ==
    /\ ~RLess(Frac(e), req.warmup_ratio)
    /\ RSub(One, req.warmup_ratio) = Zero

\* the learning rate checkpoint_callback records for epoch e
CheckpointLr(e) ==
    LET frac == Frac(e)
        wr == req.warmup_ratio
        lr == IF RLess(frac, wr)
              THEN RMul(req.learning_rate, RDiv(frac, wr))
              ELSE RMul(req.learning_rate,
                        RSub(One, RDiv(RSub(frac, wr), RSub(One, wr))))
    IN  RMax(lr, Zero)

\* outputs.loss of a batch under weights w: falls as the weights are updated
LossAt(w) == R(MaxSteps + 1 - w)

\* the loss summed over the epoch, never divided
MeanLossSum(total, n) == total

\* mean_loss = epoch_loss / max(num_batches, 1)
MeanLoss(total, n) == RDiv(total, R(IF n > 1 THEN n ELSE 1))

Pow10(k) == IF k = 4 THEN 10000 ELSE 1000000

\* round(r, k) of a value that is not negative: to the nearest, ties to even
Round(r, k) ==
    LET s == r[1] * Pow10(k)
        q == s \div r[2]
        rem == s % r[2]
        up == IF 2 * rem < r[2] THEN 0
              ELSE IF 2 * rem > r[2] THEN 1
              ELSE q % 2
    IN  Rat(q + up, Pow10(k))

\* a progress update whose progress is the fraction of the epochs itself
ProgressUpdateUnscaled(e, total, loss) ==
    [status |-> "training",
     progress |-> Round(Rat(e, total), 4),
     current_epoch |-> e,
     total_epochs |-> total,
     training_loss |-> Round(loss, 6)]

\* progress_callback: the update appended to _pending_progress (eta_seconds left out)
ProgressUpdate(e, total, loss) ==
    [status |-> "training",
     progress |-> Round(RMul(Rat(e, total), Rat(6, 10)), 4),
     current_epoch |-> e,
     total_epochs |-> total,
     training_loss |-> Round(loss, 6)]

\* the updates the handler yields itself
StatusUpdate(status, progress) == [status |-> status, progress |-> progress]

StartingUpdate ==
    [status |-> "starting", progress |-> Zero, current_epoch |-> 0,
     total_epochs |-> req.num_epochs]

TrainingUpdate ==
    [status |-> "training", progress |-> Rat(5, 100), current_epoch |-> 0,
     total_epochs |-> req.num_epochs]

\* a request that TrainRequest accepts whatever its influence_method
ValidRequestAny == TRUE

\* TrainRequest(**job_input): influence_method is one of the three literals
ValidRequest == method \in Methods

\* the exceptions a step on the GPU can end in
Faults == {"none", "OutOfMemoryError", "RuntimeError"}

\* the handler's except Exception branch: str(e) and the generic suggestion
ErrorResult(e) == [error |-> e, suggestion |-> "Check the logs for details."]

\* an out-of-memory error answered by the generic branch
OomResultGeneric == ErrorResult("CUDA out of memory")

\* the handler's except torch.cuda.OutOfMemoryError branch
OomResult ==
    [error |-> "GPU out of memory",
     suggestion |-> "Try reducing batch_size, max_seq_length, or lora_rank."]

\* a tracin job whose training left no checkpoint
NeedsFallbackNever == FALSE

\* if not checkpoints
NeedsFallback == checkpoints = <<>>

\* the epoch loop ends one epoch early
LastEpochEarly(e) == e >= req.num_epochs - 1

\* range(1, hp.num_epochs + 1) is exhausted after epoch e
LastEpoch(e) == e >= req.num_epochs

\* for batch in dataloader: the next batch, or the end of the epoch
NextBatchPos(nb) == IF nb < BatchesPerEpoch THEN "forward" ELSE "epoch_end"

\* handler lines 52-67: validation of the request and the first update
HandlerParse ==
    /\ jpc = "request"
    /\ IF ValidRequest
       THEN /\ yielded' = Append(yielded, StartingUpdate)
            /\ jpc' = "load"
            /\ UNCHANGED job_result
       ELSE /\ job_result' = [error |-> "Invalid request",
                              suggestion |-> "Check the request payload."]
            /\ jpc' = "done"
            /\ UNCHANGED yielded
    /\ UNCHANGED <<req, hooks, epoch, num_batches, epoch_loss, batch_loss, opt_steps,
                   sched_steps, loss_history, progress_calls, pending_progress, hook_calls,
                   exception, estimator_calls, load_calls>>
    /\ UNCHANGED estVars
    /\ UNCHANGED gradVars

\* handler lines 73-77: load_model_and_tokenizer is called with hf_token=, which
\* it does not accept (models.py:50-54); the call raises before the function runs
HandlerLoad ==
    /\ jpc = "load"
    /\ load_calls' = load_calls + 1
    /\ exception' = "TypeError"
    /\ jpc' = "raised"
    /\ UNCHANGED <<req, hooks, epoch, num_batches, epoch_loss, batch_loss, opt_steps,
                   sched_steps, loss_history, progress_calls, pending_progress, hook_calls,
                   yielded, estimator_calls, job_result>>
    /\ UNCHANGED estVars
    /\ UNCHANGED gradVars

\* handler lines 265-282: the two except branches
HandlerExcept ==
    /\ jpc = "raised"
    /\ job_result' = IF exception = "OutOfMemoryError" THEN OomResult
                     ELSE ErrorResult(exception)
    /\ jpc' = "done"
    /\ UNCHANGED <<req, hooks, epoch, num_batches, epoch_loss, batch_loss, opt_steps,
                   sched_steps, loss_history, progress_calls, pending_progress, hook_calls,
                   exception, yielded, estimator_calls, load_calls>>
    /\ UNCHANGED estVars
    /\ UNCHANGED gradVars

\* handler line 159 and train_loop lines 127-159: set-up and entry of the epoch loop
TrainLoopCall ==
    /\ jpc = "train_loop"
    /\ IF req.num_epochs >= 1
       THEN epoch' = 1 /\ jpc' = NextBatchPos(0)
       ELSE epoch' = 0 /\ jpc' = "after_train"
    /\ num_batches' = 0
    /\ epoch_loss' = Zero
    /\ UNCHANGED <<req, hooks, batch_loss, opt_steps, sched_steps, loss_history,
                   progress_calls, pending_progress, hook_calls, exception, yielded,
                   estimator_calls, load_calls, job_result>>
    /\ UNCHANGED estVars
    /\ UNCHANGED gradVars

\* train_loop lines 164-176: forward pass, backward pass and gradient clipping
TrainForwardBackward ==
    /\ jpc = "forward"
    /\ \E fault \in Faults :
          IF fault = "none"
          THEN /\ batch_loss' = LossAt(AdapterWeights)
               /\ grad_buf' = Backward(grad_buf, grads[AdapterWeights][1])
               /\ jpc' = "optimizer"
               /\ UNCHANGED exception
          ELSE /\ exception' = fault
               /\ jpc' = "raised"
               /\ UNCHANGED <<batch_loss, grad_buf>>
    /\ UNCHANGED <<req, hooks, epoch, num_batches, epoch_loss, opt_steps, sched_steps,
                   loss_history, progress_calls, pending_progress, hook_calls, yielded,
                   estimator_calls, load_calls, job_result>>
    /\ UNCHANGED estVars
    /\ UNCHANGED extracted

\* train_loop line 177: optimizer.step() updates the parameters that have a gradient
TrainOptimizerStep ==
    /\ jpc = "optimizer"
    /\ heap' = IF \E p \in 1..Len(grad_buf) : grad_buf[p] # NoGrad
               THEN OptimizerStep(heap) ELSE heap
    /\ opt_steps' = opt_steps + 1
    /\ jpc' = "scheduler"
    /\ UNCHANGED <<req, hooks, epoch, num_batches, epoch_loss, batch_loss, sched_steps,
                   loss_history, progress_calls, pending_progress, hook_calls, exception,
                   yielded, estimator_calls, load_calls, job_result>>
    /\ UNCHANGED <<method, params, training_data, eval_data, grads, lambda_reg, checkpoints,
                   learning_rates, pc, ckpt_idx, train_grads, eval_idx, scores, result>>
    /\ UNCHANGED gradVars

\* train_loop line 178: scheduler.step()
TrainSchedulerStep ==
    /\ jpc = "scheduler"
    /\ sched_steps' = sched_steps + 1
    /\ jpc' = "zero_grad"
    /\ UNCHANGED <<req, hooks, epoch, num_batches, epoch_loss, batch_loss, opt_steps,
                   loss_history, progress_calls, pending_progress, hook_calls, exception,
                   yielded, estimator_calls, load_calls, job_result>>
    /\ UNCHANGED estVars
    /\ UNCHANGED gradVars

\* train_loop lines 179-182: optimizer.zero_grad() and the batch's bookkeeping
TrainZeroGrad ==
    /\ jpc = "zero_grad"
    /\ grad_buf' = ZeroGrad(grad_buf)
    /\ epoch_loss' = RAdd(epoch_loss, batch_loss)
    /\ num_batches' = num_batches + 1
    /\ jpc' = NextBatchPos(num_batches')
    /\ UNCHANGED <<req, hooks, epoch, batch_loss, opt_steps, sched_steps, loss_history,
                   progress_calls, pending_progress, hook_calls, exception, yielded,
                   estimator_calls, load_calls, job_result>>
    /\ UNCHANGED estVars
    /\ UNCHANGED extracted

\* train_loop lines 184-193: the end of an epoch, with both callbacks
EpochEnd ==
    /\ jpc = "epoch_end"
    /\ LET mean_loss == MeanLoss(epoch_loss, num_batches)
           raises == HookRegistered /\ CheckpointDue(epoch) /\ CheckpointLrRaises(epoch)
       IN  /\ loss_history' = Append(loss_history, mean_loss)
           /\ IF hooks.progress_callback
              THEN /\ progress_calls' = Append(progress_calls,
                                               <<epoch, req.num_epochs, mean_loss>>)
                   /\ pending_progress' = Append(pending_progress,
                                                 ProgressUpdate(epoch, req.num_epochs,
                                                                mean_loss))
              ELSE UNCHANGED <<progress_calls, pending_progress>>
           /\ IF HookRegistered /\ CheckpointDue(epoch)
              THEN /\ hook_calls' = Append(hook_calls, epoch)
                   /\ heap' = ClonedHeap(heap)
                   /\ checkpoints' = Append(checkpoints, LoraStateDict(heap))
                   /\ IF raises THEN UNCHANGED learning_rates
                      ELSE learning_rates' = Append(learning_rates, CheckpointLr(epoch))
              ELSE UNCHANGED <<hook_calls, heap, checkpoints, learning_rates>>
           /\ IF raises
              THEN /\ exception' = "float division by zero"
                   /\ jpc' = "raised"
                   /\ UNCHANGED <<epoch, num_batches, epoch_loss>>
              ELSE /\ UNCHANGED exception
                   /\ IF LastEpoch(epoch)
                      THEN jpc' = "after_train" /\ UNCHANGED <<epoch, num_batches, epoch_loss>>
                      ELSE /\ epoch' = epoch + 1
                           /\ num_batches' = 0
                           /\ epoch_loss' = Zero
                           /\ jpc' = NextBatchPos(0)
    /\ UNCHANGED <<req, hooks, batch_loss, opt_steps, sched_steps, yielded, estimator_calls,
                   load_calls, job_result>>
    /\ UNCHANGED <<method, params, training_data, eval_data, grads, lambda_reg,
                   pc, ckpt_idx, train_grads, eval_idx, scores, result>>
    /\ UNCHANGED gradVars

\* handler lines 170-182: the last training progress and the first influence status
HandlerAfterTrain ==
    /\ jpc = "after_train"
    /\ yielded' = (IF pending_progress # <<>>
                   THEN Append(yielded, pending_progress[Len(pending_progress)])
                   ELSE yielded)
                  \o <<StatusUpdate("computing_influence", Rat(65, 100))>>
    /\ jpc' = "influence"
    /\ UNCHANGED <<req, hooks, epoch, num_batches, epoch_loss, batch_loss, opt_steps,
                   sched_steps, loss_history, progress_calls, pending_progress, hook_calls,
                   exception, estimator_calls, load_calls, job_result>>
    /\ UNCHANGED estVars
    /\ UNCHANGED gradVars

\* handler lines 186-211: the fallback checkpoint of tracin and the estimator's call
HandlerInfluence ==
    /\ jpc = "influence"
    /\ IF method \notin Methods
       THEN /\ job_result' = [error |-> "Unknown influence method",
                              suggestion |-> "Supported methods: tracin, datainf, kronfluence."]
            /\ jpc' = "done"
            /\ UNCHANGED <<heap, checkpoints, learning_rates, pc, estimator_calls, exception>>
       ELSE /\ IF method = "tracin" /\ NeedsFallback
               THEN /\ heap' = ClonedHeap(heap)
                    /\ checkpoints' = Append(checkpoints, LoraStateDict(heap))
                    /\ learning_rates' = Append(learning_rates, req.learning_rate)
               ELSE UNCHANGED <<heap, checkpoints, learning_rates>>
            /\ estimator_calls' = Append(estimator_calls, method)
            /\ \E fault \in Faults :
                  IF fault = "none"
                  THEN pc' = "start" /\ jpc' = "estimating" /\ UNCHANGED exception
                  ELSE exception' = fault /\ jpc' = "raised" /\ UNCHANGED pc
            /\ UNCHANGED job_result
    /\ UNCHANGED <<req, hooks, epoch, num_batches, epoch_loss, batch_loss, opt_steps,
                   sched_steps, loss_history, progress_calls, pending_progress, hook_calls,
                   yielded, load_calls>>
    /\ UNCHANGED <<method, params, training_data, eval_data, grads, lambda_reg,
                   ckpt_idx, train_grads, eval_idx, scores, result>>
    /\ UNCHANGED gradVars

\* handler lines 213-226, or the estimator's exception on its way to the except branch
HandlerInfluenceReturned ==
    /\ jpc = "estimating" /\ pc = "done"
    /\ IF result.raised
       THEN /\ exception' = "RuntimeError"
            /\ jpc' = "raised"
            /\ UNCHANGED yielded
       ELSE /\ yielded' = yielded \o <<StatusUpdate("computing_influence", Rat(85, 100)),
                                       StatusUpdate("running_eval", Rat(9, 10))>>
            /\ jpc' = "run_eval"
            /\ UNCHANGED exception
    /\ pc' = "idle"
    /\ UNCHANGED <<req, hooks, epoch, num_batches, epoch_loss, batch_loss, opt_steps,
                   sched_steps, loss_history, progress_calls, pending_progress, hook_calls,
                   estimator_calls, load_calls, job_result>>
    /\ UNCHANGED <<method, params, training_data, eval_data, grads, lambda_reg, checkpoints,
                   learning_rates, heap, ckpt_idx, train_grads, eval_idx, scores, result>>
    /\ UNCHANGED gradVars

\* handler lines 228-263: run_eval on the model as it is, and the results payload
HandlerRunEval ==
    /\ jpc = "run_eval"
    /\ \E fault \in Faults :
          IF fault = "none"
          THEN /\ job_result' = [status |-> "completed", influence |-> result,
                                 eval_weights |-> AdapterWeights,
                                 loss_history |-> loss_history]
               /\ jpc' = "done"
               /\ UNCHANGED exception
          ELSE /\ exception' = fault
               /\ jpc' = "raised"
               /\ UNCHANGED job_result
    /\ UNCHANGED <<req, hooks, epoch, num_batches, epoch_loss, batch_loss, opt_steps,
                   sched_steps, loss_history, progress_calls, pending_progress, hook_calls,
                   yielded, estimator_calls, load_calls>>
    /\ UNCHANGED estVars
    /\ UNCHANGED gradVars

(***************************************************************************)
(* The jobs checked.                                                       *)
(***************************************************************************)
\* Gradients that differ from one weight value to the next and from one
\* example to the next.
JobGrads(n) == [w \in 0..MaxSteps |-> [x \in 1..n |-> << <<R(1 + w + x)>> >>]]

Requests ==
    [num_epochs : 0..MaxEpochs, batch_size : BatchSizes, warmup_ratio : WarmupRatios,
     learning_rate : {DefaultLearningRate}, checkpoint_interval : CheckpointIntervals]

\* the hyperparams train_loop and the checkpoint hook read
LoopRequests ==
    {r \in Requests : r.warmup_ratio \in {Rat(1, 10), One} /\ r.checkpoint_interval = 10}

\* a model with its adapter, the data of the request, nothing trained yet
InitModel ==
    /\ params = << <<1, "weight">> >>
    /\ lambda_reg = Rat(1, 1000)
    /\ heap = <<0, 0>>
    /\ checkpoints = <<>>
    /\ learning_rates = <<>>
    /\ \E nt \in 1..MaxTrain :
          /\ training_data = Examples(0, nt)
          /\ eval_data = Examples(nt, 1)
          /\ grads = JobGrads(nt + 1)
    /\ pc = "idle"
    /\ InitCommon
    /\ epoch = 0
    /\ num_batches = 0
    /\ epoch_loss = Zero
    /\ batch_loss = Zero
    /\ opt_steps = 0
    /\ sched_steps = 0
    /\ loss_history = <<>>
    /\ progress_calls = <<>>
    /\ pending_progress = <<>>
    /\ hook_calls = <<>>
    /\ exception = "none"
    /\ estimator_calls = <<>>
    /\ job_result = [status |-> "none"]

\* the handler at the arrival of a request
InitHandler ==
    /\ method \in Methods \cup {"shapley"}
    /\ req \in Requests
    /\ hooks = HandlerHooks
    /\ InitModel
    /\ jpc = "request"
    /\ yielded = <<>>
    /\ load_calls = 0

\* the handler at its call of train_loop
InitTrain ==
    /\ method \in Methods
    /\ req \in Requests
    /\ hooks = HandlerHooks
    /\ InitModel
    /\ jpc = "train_loop"
    /\ yielded = <<StartingUpdate, TrainingUpdate>>
    /\ load_calls = 1

\* train_loop called with each of its hooks given or None
InitLoop ==
    /\ method = "none"
    /\ req \in LoopRequests
    /\ hooks \in [checkpoint_callback : BOOLEAN, progress_callback : BOOLEAN]
    /\ InitModel
    /\ jpc = "train_loop"
    /\ yielded = <<>>
    /\ load_calls = 0

NextHandler ==
    \/ HandlerParse
    \/ HandlerLoad
    \/ HandlerExcept

NextLoop ==
    \/ TrainLoopCall
    \/ TrainForwardBackward
    \/ TrainOptimizerStep
    \/ TrainSchedulerStep
    \/ TrainZeroGrad
    \/ EpochEnd

NextTrain ==
    \/ NextLoop
    \/ HandlerAfterTrain
    \/ HandlerInfluence
    \/ HandlerInfluenceReturned
    \/ HandlerRunEval
    \/ HandlerExcept
    \/ TracinStart
    \/ TracinLoad
    \/ TracinTrainGrads
    \/ TracinEval
    \/ TracinReturn
    \/ DataInfCall
    \/ KronfluenceCall

SpecHandler == InitHandler /\ [][NextHandler]_vars

SpecLoop == InitLoop /\ [][NextLoop]_vars

SpecTrain == InitTrain /\ [][NextTrain]_vars

(***************************************************************************)
(* Properties of the estimators, checked under SpecEst.                    *)
(***************************************************************************)
Returned == pc = "done" /\ ~result.raised

\* C1: whenever an estimator returns, scores has len(eval_labels) rows, every row has
\* len(training_labels) entries, and the label lists are as long as the data lists.
ScoresShape ==
    Returned =>
        /\ Len(result.training_labels) = Len(training_data)
        /\ Len(result.eval_labels) = Len(eval_data)
        /\ Len(result.scores) = Len(result.eval_labels)
        /\ \A i \in 1..Len(result.scores) :
              Len(result.scores[i]) = Len(result.training_labels)

\* a Kronfluence call that returned a grid of one row and two columns, one module
\* missing from the second training example
ScoresShapeWitness ==
    /\ Returned /\ method = "kronfluence"
    /\ Len(training_data) = 2 /\ Len(eval_data) = 1
    /\ ModuleKeys(AdapterWeights, training_data[1]) = {1, 2}
    /\ ModuleKeys(AdapterWeights, training_data[2]) = {1}
    /\ Len(result.scores) = 1 /\ Len(result.scores[1]) = 2

\* the adapter weights checkpoint k holds
CkptWeights(k) == heap[checkpoints[k]["lora_A.weight"]]

\* the gradient the table holds for a one-parameter adapter
TableGrad(w, x) == grads[w][x.id][1]

\* sum over the checkpoints k..K of lr_k * dot(eval gradient, training gradient)
RECURSIVE TracinSum(_, _, _)
TracinSum(k, ed, td) ==
    IF k > NumPairs THEN Zero
    ELSE RAdd(RMul(learning_rates[k],
                   Dot(TableGrad(CkptWeights(k), ed), TableGrad(CkptWeights(k), td))),
              TracinSum(k + 1, ed, td))

\* the scenario of two checkpoints, rates 0.1 and 0.05, dot product 4 at both
TracinScenario ==
    /\ method = "tracin"
    /\ Len(training_data) = 1 /\ Len(eval_data) = 1
    /\ learning_rates = <<Rat(1, 10), Rat(1, 20)>>
    /\ Len(checkpoints) = 2
    /\ \A k \in 1..2 : Dot(TableGrad(CkptWeights(k), eval_data[1]),
                           TableGrad(CkptWeights(k), training_data[1])) = R(4)

\* C2: compute_tracin returns scores[i][j] = sum over the checkpoints k of
\* lr_k * dot(eval gradient i, training gradient j), both under checkpoint k's weights;
\* with one checkpoint of rate 1 that is the dot product, and in the scenario it is 0.6.
TracinIsWeightedSum ==
    (Returned /\ method = "tracin") =>
        /\ \A i \in 1..Len(eval_data) : \A j \in 1..Len(training_data) :
              result.scores[i][j] = TracinSum(1, eval_data[i], training_data[j])
        /\ (Len(checkpoints) = 1 /\ learning_rates = <<One>>) =>
              \A i \in 1..Len(eval_data) : \A j \in 1..Len(training_data) :
                 result.scores[i][j] = Dot(TableGrad(CkptWeights(1), eval_data[i]),
                                           TableGrad(CkptWeights(1), training_data[j]))
        /\ TracinScenario => result.scores = << <<Rat(6, 10)>> >>

\* the scenario has run to its end, through two different weight states
TracinWitness ==
    /\ Returned /\ TracinScenario
    /\ CkptWeights(1) # CkptWeights(2)
    /\ result.scores = << <<Rat(3, 5)>> >>

\* every module of every example has all its parameters' gradients or none
WholeModules ==
    \A x \in 1..(Len(training_data) + Len(eval_data)) :
       \A p, q \in 1..Len(params) :
          ModuleName(params[p]) = ModuleName(params[q]) =>
             ((grads[AdapterWeights][x][p] = NoGrad) <=> (grads[AdapterWeights][x][q] = NoGrad))

\* the position of training example j among those that have module m
RankIn(w, m, j) == Cardinality({k \in 1..j : m \in ModuleKeys(w, training_data[k])})

\* what module m adds to cell (eval x, training j) when absent modules add zero
ModuleShare(w, x, m, j) ==
    IF m \in ModuleKeys(w, x) /\ m \in ModuleKeys(w, training_data[j])
    THEN ModContribution(w, x, m)[RankIn(w, m, j)]
    ELSE Zero

\* every example has a gradient for at least one parameter
EveryExampleHasGradient ==
    \A x \in 1..(Len(training_data) + Len(eval_data)) :
       \E p \in 1..Len(params) : grads[AdapterWeights][x][p] # NoGrad

\* C7: Kronfluence returns for each eval example a row of length n_train that sums the
\* contributions of the modules the eval example and the table share; a module absent
\* from the eval example or from some training examples adds zero there, and neither
\* raises nor lands in another training example's column.
KronAbsentModulesAddZero ==
    (pc = "done" /\ method = "kronfluence" /\ WholeModules /\ EveryExampleHasGradient) =>
        /\ ~result.raised
        /\ \A i \in 1..Len(eval_data) :
              /\ Len(result.scores[i]) = Len(training_data)
              /\ \A j \in 1..Len(training_data) :
                    result.scores[i][j] =
                       RSum(SeqOf(LAMBDA k : ModuleShare(AdapterWeights, eval_data[i],
                                                         Sorted(AllModuleNames(AdapterWeights))[k], j),
                                  Cardinality(AllModuleNames(AdapterWeights))))

OneModuleGroup == Cardinality({ModuleName(params[p]) : p \in 1..Len(params)}) = 1

\* C8: with one module group, whenever compute_datainf with lambda 1e-3 returns on the
\* same model and data, compute_kronfluence returns the same scores.
KronEqualsDataInfOnOneModule ==
    (pc = "done" /\ method = "kronfluence" /\ OneModuleGroup
        /\ ~DataInfRaises(AdapterWeights, Rat(1, 1000))) =>
        /\ ~result.raised
        /\ result.scores = DataInfScores(AdapterWeights, Rat(1, 1000))

\* one module of two parameters, two training examples, one eval example, scores not zero
KronEqualsDataInfWitness ==
    /\ Returned /\ method = "kronfluence" /\ OneModuleGroup
    /\ Len(params) = 2 /\ Len(training_data) = 2 /\ Len(eval_data) = 1
    /\ ~DataInfRaises(AdapterWeights, Rat(1, 1000))
    /\ result.scores[1][1] # Zero /\ result.scores[1][2] # result.scores[1][1]

\* (G G^T) / n + lambda * I, of size n_train
GramMatrix(G, lam) ==
    MatAdd(MatScale(Rat(1, NRows(G)), MatMul(G, Transpose(G))), MatScale(lam, Eye(NRows(G))))

DataInfScenario ==
    /\ method = "datainf" /\ lambda_reg = One
    /\ TrainGradsOf(AdapterWeights) = << <<R(1), R(0)>>, <<R(0), R(1)>> >>
    /\ EvalGradsOf(AdapterWeights) = << <<R(1), R(1)>> >>

\* C9: compute_datainf returns for each eval example the row g * inverse(C) * G^T with
\* C = (G^T G)/n_train + lambda I: the inverse used is C's inverse, and the row r is the
\* one solution of r * ((G G^T)/n_train + lambda I) = g * G^T, which is that product; in
\* the scenario the row is [2/3, 2/3].
DataInfIsClosedForm ==
    (Returned /\ method = "datainf") =>
        LET G == TrainGradsOf(AdapterWeights)
            C == Covariance(G, lambda_reg)
        IN  /\ MatMul(C, MatInv(C)) = Eye(NCols(G))
            /\ \A i \in 1..Len(eval_data) :
                  VecMat(result.scores[i], GramMatrix(G, lambda_reg))
                     = VecMat(EvalGradsOf(AdapterWeights)[i], Transpose(G))
            /\ DataInfScenario => result.scores = << <<Rat(2, 3), Rat(2, 3)>> >>

DataInfWitness ==
    /\ Returned /\ DataInfScenario
    /\ result.scores = << <<Rat(2, 3), Rat(2, 3)>> >>

NormSq(v) == Dot(v, v)

\* the original C10: doubling lambda leaves no score's magnitude larger and makes every
\* nonzero score's magnitude strictly smaller
DoublingShrinksEveryScore ==
    (Returned /\ method = "datainf") =>
        LET doubled == DataInfScores(AdapterWeights, RMul(R(2), lambda_reg))
        IN  \A i \in 1..Len(eval_data) : \A j \in 1..Len(training_data) :
               /\ RLeq(RAbs(doubled[i][j]), RAbs(result.scores[i][j]))
               /\ result.scores[i][j] # Zero =>
                     RLess(RAbs(doubled[i][j]), RAbs(result.scores[i][j]))

\* C10 as amended: doubling lambda strictly shrinks the Euclidean norm of every nonzero
\* row of scores and leaves a zero row zero, and every score is at most
\* |g| * |t_j| / lambda in magnitude, so that it tends to 0 as lambda grows.
DoublingShrinksRowNorm ==
    (Returned /\ method = "datainf") =>
        LET doubled == DataInfScores(AdapterWeights, RMul(R(2), lambda_reg))
            G == TrainGradsOf(AdapterWeights)
            eg == EvalGradsOf(AdapterWeights)
        IN  \A i \in 1..Len(eval_data) :
               /\ IF NormSq(result.scores[i]) = Zero
                  THEN NormSq(doubled[i]) = Zero
                  ELSE RLess(NormSq(doubled[i]), NormSq(result.scores[i]))
               /\ \A j \in 1..Len(training_data) :
                     RLeq(RMul(RMul(lambda_reg, lambda_reg),
                               RMul(result.scores[i][j], result.scores[i][j])),
                          RMul(NormSq(eg[i]), NormSq(G[j])))

\* a returned row whose norm shrank while one of its scores grew
DoublingWitness ==
    /\ Returned /\ method = "datainf"
    /\ \E i \in 1..Len(eval_data) : \E j \in 1..Len(training_data) :
          LET doubled == DataInfScores(AdapterWeights, RMul(R(2), lambda_reg))
          IN  /\ RLess(RAbs(result.scores[i][j]), RAbs(doubled[i][j]))
              /\ RLess(NormSq(doubled[i]), NormSq(result.scores[i]))

(***************************************************************************)
(* Properties of the training pipeline, checked under SpecTrain.           *)
(***************************************************************************)
\* the handler returned the results payload
Completed == "status" \in DOMAIN job_result /\ job_result.status = "completed"

\* the epochs among the first n that are multiples of the request's checkpoint_interval
IntervalEpochs(n) ==
    SelectSeq(SeqOf(LAMBDA e : e, n), LAMBDA e : e % req.checkpoint_interval = 0)

\* C3: with the hook registered, the epochs the hook has been called with are
\* exactly the finished epochs that are multiples of the request's
\* checkpoint_interval, in order.
HookAtConfiguredInterval ==
    (jpc # "none" /\ HookRegistered) => hook_calls = IntervalEpochs(Len(loss_history))

\* C4: no job fails in the learning-rate computation of the checkpoint hook, and
\* every learning rate recorded with a checkpoint lies between 0 and the
\* configured learning rate.
CheckpointLrInRange ==
    (jpc # "none" /\ HookRegistered) =>
        /\ exception # "float division by zero"
        /\ \A k \in 1..Len(learning_rates) :
              RLeq(Zero, learning_rates[k]) /\ RLeq(learning_rates[k], req.learning_rate)

\* C5: a tracin job whose training called the hook at no epoch reaches the
\* estimator with exactly one checkpoint, holding the weights the adapter has
\* after the last optimizer update, and with the configured learning rate alone;
\* the scores it returns are that learning rate times the dot products of the
\* gradients under those weights.
FallbackCheckpoint ==
    (method = "tracin" /\ hook_calls = <<>> /\ estimator_calls # <<>>) =>
        /\ Len(checkpoints) = 1
        /\ CkptWeights(1) = opt_steps
        /\ learning_rates = <<req.learning_rate>>
        /\ (jpc = "run_eval" \/ Completed) =>
              /\ ~result.raised
              /\ result.scores =
                    SeqOf(LAMBDA i :
                            SeqOf(LAMBDA j :
                                    RMul(req.learning_rate,
                                         Dot(TableGrad(opt_steps, eval_data[i]),
                                             TableGrad(opt_steps, training_data[j]))),
                                  Len(training_data)),
                          Len(eval_data))

\* a finished tracin job that trained, never called the hook, and returned scores
FallbackWitness ==
    /\ method = "tracin" /\ jpc = "done" /\ Completed
    /\ hook_calls = <<>>
    /\ opt_steps > 0
    /\ Len(training_data) = 2

\* C6: no step changes a value held by a checkpoint captured before it: the
\* checkpoint stays in the list and each of its tensors keeps its value.
SnapshotsKeepTheirValues ==
    [][\A k \in 1..Len(checkpoints) :
          /\ k <= Len(checkpoints')
          /\ \A key \in DOMAIN checkpoints[k] :
                /\ key \in DOMAIN checkpoints'[k]
                /\ heap'[checkpoints'[k][key]] = heap[checkpoints[k][key]]]_vars

\* a finished job with two checkpoints: training went on after the first was
\* captured, and the estimator loaded the first and then the second
SnapshotsWitness ==
    /\ method = "tracin" /\ jpc = "done" /\ Completed
    /\ Len(checkpoints) = 2
    /\ CkptWeights(1) < opt_steps
    /\ CkptWeights(1) = 10 * BatchesPerEpoch
    /\ CkptWeights(2) = opt_steps
    /\ AdapterWeights = CkptWeights(2)

(***************************************************************************)
(* Properties of gradient extraction, checked under SpecGrad.              *)
(***************************************************************************)
\* the gradient the model gives parameter p for the example of the last extraction
TableCell(p) == grads[AdapterWeights][extracted.id][p]

\* C11: a flat gradient returned has one element for every element of every
\* adapter parameter, each at its parameter's position.
FlatGradLengthAndOrder ==
    (extracted.kind = "flat" /\ ~extracted.raised) =>
        /\ Len(extracted.grad) = Len(params)
        /\ \A p \in 1..Len(params) : <<extracted.grad[p]>> = TableCell(p)

\* C12: after every extraction all gradient buffers are None, and what the
\* extraction returned is made of the gradients of its own example alone.
GradBuffersCleared ==
    (extracted.kind # "none") =>
        /\ \A p \in 1..Len(grad_buf) : grad_buf[p] = NoGrad
        /\ (extracted.kind = "flat" /\ ~extracted.raised) =>
              extracted.grad = Collect(grads[AdapterWeights][extracted.id], AllIdx, 1)
        /\ extracted.kind = "flat" =>
              (extracted.raised <=> \A p \in 1..Len(params) : TableCell(p) = NoGrad)
        /\ extracted.kind = "modules" =>
              \A m \in {ModuleName(params[p]) : p \in 1..Len(params)} :
                 LET own == Collect(grads[AdapterWeights][extracted.id], IdxOf(m), 1)
                 IN  IF own = <<>> THEN m \notin DOMAIN extracted.grad
                     ELSE m \in DOMAIN extracted.grad /\ extracted.grad[m] = own

\* an extraction of the second example right after others, with a gradient returned
GradBuffersWitness ==
    /\ Len(training_data) = 2
    /\ extracted.kind \in {"flat", "modules"} /\ extracted.id = 2 /\ ~extracted.raised
    /\ \E p \in 1..Len(params) : grads[AdapterWeights][1][p] # NoGrad
    /\ \E p \in 1..Len(params) : TableCell(p) # NoGrad /\ TableCell(p) # <<Zero>>

(***************************************************************************)
(* Estimators and gradients that are missing, checked under SpecEst.       *)
(***************************************************************************)
\* the backward pass of example x gives no adapter parameter a gradient
NoGradient(x) == \A p \in 1..Len(params) : grads[AdapterWeights][x.id][p] = NoGrad

\* C13: an estimator that has extracted the gradient of a training example
\* without any parameter gradient has raised, and returned no influence matrix.
ZeroGradientsRaise ==
    (/\ pc = "done"
     /\ method = "tracin" => NumPairs > 0
     /\ \E j \in 1..Len(training_data) : NoGradient(training_data[j]))
    => result.raised

(***************************************************************************)
(* Labels, checked under SpecLabels.                                       *)
(***************************************************************************)
\* the label the example at position k of data should get
ExpectedLabel(data, prefix, k) ==
    IF "question" \in DOMAIN data[k]
    THEN (IF Len(data[k].question) <= 80 THEN data[k].question
          ELSE [c \in 1..80 |-> data[k].question[c]])
    ELSE prefix \o <<ToString(k - 1)>>

LabelsAsExpected ==
    /\ Len(result.training_labels) = Len(training_data)
    /\ Len(result.eval_labels) = Len(eval_data)
    /\ \A k \in 1..Len(training_data) :
          result.training_labels[k] = ExpectedLabel(training_data, TrainPrefix, k)
    /\ \A k \in 1..Len(eval_data) :
          result.eval_labels[k] = ExpectedLabel(eval_data, EvalPrefix, k)

\* C14: in what an estimator returns, the label at each position is that
\* example's question cut at 80 characters, or train_<i> / eval_<i> (i counted
\* from 0) for an example without a question field, in input order.
ReturnedLabelsAsExpected == (pc = "done" /\ ~result.raised) => LabelsAsExpected

\* a structure returned for a question of 81 characters, one of 80 and an
\* example without a question
LabelsWitness ==
    /\ pc = "done" /\ ~result.raised
    /\ Len(training_data) = 2 /\ Len(eval_data) = 1
    /\ "question" \in DOMAIN training_data[1] /\ Len(training_data[1].question) = 81
    /\ "question" \notin DOMAIN training_data[2]
    /\ "question" \in DOMAIN eval_data[1] /\ Len(eval_data[1].question) = 80
    /\ Len(result.training_labels[1]) = 80
    /\ result.training_labels[2] = <<"t", "r", "a", "i", "n", "_", "1">>

\* An estimator that reaches the gradient of an example without a question
\* raises (KeyError): such an example is labelled only by compute_tracin with
\* no (checkpoint, learning rate) pair to process.
MissingQuestionRaises ==
    (/\ pc = "done"
     /\ KeyErrorIn(training_data) \/ KeyErrorIn(eval_data)
     /\ method = "tracin" => NumPairs > 0
     /\ KeyErrorIn(training_data) \/ training_data # <<>> \/ method = "kronfluence")
    => result.raised

(***************************************************************************)
(* Properties of train_loop, checked under SpecLoop.                       *)
(***************************************************************************)
\* the least k with k * b >= n
CeilDiv(n, b) == CHOOSE k \in 0..n : k * b >= n /\ (k = 0 \/ (k - 1) * b < n)

StepsPerEpoch == CeilDiv(Len(training_data), req.batch_size)

\* the mean of the losses of epoch e's batches, the weights having received one
\* update for every batch before
ExpectedMeanLoss(e) ==
    RDiv(RSum(SeqOf(LAMBDA b : LossAt((e - 1) * StepsPerEpoch + b - 1), StepsPerEpoch)),
         R(StepsPerEpoch))

\* C15: with a progress hook, the hook has been called once for every finished
\* epoch, in order, with (epoch, total_epochs, the epoch's mean loss); without
\* one it has not been called.  Either way the weights, the loss history and
\* the checkpoints are the same functions of the steps done.
ProgressHookOncePerEpoch ==
    (jpc # "none") =>
        /\ progress_calls =
              IF hooks.progress_callback
              THEN SeqOf(LAMBDA e : <<e, req.num_epochs, ExpectedMeanLoss(e)>>,
                         Len(loss_history))
              ELSE <<>>
        /\ AdapterWeights = opt_steps
        /\ \A e \in 1..Len(loss_history) : loss_history[e] = ExpectedMeanLoss(e)
        /\ hook_calls =
              IF hooks.checkpoint_callback
              THEN SelectSeq(SeqOf(LAMBDA e : e, Len(loss_history)), LAMBDA e : e % 10 = 0)
              ELSE <<>>
        /\ Len(checkpoints) = Len(hook_calls)
        /\ \A k \in 1..Len(checkpoints) : CkptWeights(k) = 10 * k * StepsPerEpoch
        /\ jpc = "after_train" =>
              Len(loss_history) = req.num_epochs /\ opt_steps = req.num_epochs * StepsPerEpoch

\* train_loop has returned after 12 epochs of two batches, both hooks given
ProgressWitness ==
    /\ jpc = "after_train"
    /\ hooks.progress_callback /\ hooks.checkpoint_callback
    /\ req.num_epochs = 12 /\ StepsPerEpoch = 2
    /\ Len(progress_calls) = 12
    /\ Len(checkpoints) = 1

\* some adapter parameter holds a gradient
HasGradient == \E p \in 1..Len(grad_buf) : grad_buf[p] # NoGrad

\* C19: in every batch the optimizer steps, then the scheduler, then the gradient
\* buffers are cleared; every epoch has ceil(n / batch_size) batches, and
\* train_loop returns with num_epochs * ceil(n / batch_size) steps of the optimizer
\* and of the scheduler and one mean loss for each epoch.
TrainLoopStepCounts ==
    (jpc # "none") =>
        /\ jpc \in {"forward", "optimizer"} =>
              /\ num_batches < StepsPerEpoch
              /\ opt_steps = (epoch - 1) * StepsPerEpoch + num_batches
              /\ sched_steps = opt_steps
        /\ jpc = "scheduler" =>
              /\ opt_steps = (epoch - 1) * StepsPerEpoch + num_batches + 1
              /\ sched_steps = opt_steps - 1
        /\ jpc = "zero_grad" =>
              /\ opt_steps = (epoch - 1) * StepsPerEpoch + num_batches + 1
              /\ sched_steps = opt_steps
        /\ jpc \in {"optimizer", "scheduler", "zero_grad"} <=> HasGradient
        /\ jpc = "epoch_end" =>
              /\ num_batches = StepsPerEpoch
              /\ opt_steps = epoch * StepsPerEpoch
              /\ sched_steps = opt_steps
              /\ Len(loss_history) = epoch - 1
        /\ jpc = "after_train" =>
              /\ opt_steps = req.num_epochs * StepsPerEpoch
              /\ sched_steps = req.num_epochs * StepsPerEpoch
              /\ Len(loss_history) = req.num_epochs

\* train_loop has returned after three epochs of one partial batch each
StepCountsWitness ==
    /\ jpc = "after_train"
    /\ Len(training_data) = 1 /\ req.batch_size = 2
    /\ req.num_epochs = 3
    /\ sched_steps = 3
    /\ Len(loss_history) = 3

(***************************************************************************)
(* Properties of the handler, checked under SpecTrain and SpecHandler.     *)
(***************************************************************************)
\* C16: a job in which an exception was raised ends with a result made of an
\* error message and a suggestion and nothing else; out of memory gets the
\* suggestion to reduce batch size, sequence length or rank; and once an
\* exception is raised no training step, estimator call or load follows.
ExceptionsBecomeErrorResults ==
    /\ [](exception # "none" =>
            /\ jpc \in {"raised", "done"}
            /\ jpc = "done" =>
                  /\ DOMAIN job_result = {"error", "suggestion"}
                  /\ IF exception = "OutOfMemoryError"
                     THEN /\ job_result.error = "GPU out of memory"
                          /\ job_result.suggestion =
                                "Try reducing batch_size, max_seq_length, or lora_rank."
                     ELSE /\ job_result.error = exception
                          /\ job_result.suggestion = "Check the logs for details.")
    /\ [][exception # "none" =>
            /\ exception' = exception
            /\ opt_steps' = opt_steps
            /\ heap' = heap
            /\ estimator_calls' = estimator_calls
            /\ load_calls' = load_calls
            /\ pc' = pc]_vars

\* a job ended by an out-of-memory error after its estimator had returned scores
ErrorWitness ==
    /\ jpc = "done"
    /\ exception = "OutOfMemoryError"
    /\ estimator_calls # <<>>
    /\ "scores" \in DOMAIN result
    /\ "error" \in DOMAIN job_result

\* C17: a request whose influence method is none of the three ends, at its
\* validation, with an error result; nothing was loaded, no step of training was
\* made, no estimator was called and no update was yielded.
UnsupportedMethodRejected ==
    (jpc # "none" /\ method \notin Methods) =>
        /\ jpc \in {"request", "done"}
        /\ yielded = <<>>
        /\ load_calls = 0
        /\ opt_steps = 0 /\ loss_history = <<>>
        /\ estimator_calls = <<>>
        /\ jpc = "done" => DOMAIN job_result = {"error", "suggestion"}

\* the handler has returned for a request with an unsupported method
UnsupportedWitness ==
    /\ method = "shapley"
    /\ jpc = "done"
    /\ "error" \in DOMAIN job_result

\* an estimator is at work: between its call and its return
EstimatorActive == pc \in {"start", "load", "train", "eval", "return"}

\* C18: an estimator is called only when train_loop has returned from its last
\* epoch; no step of an estimator changes what training counts, and no training
\* step is made once an estimator was called; a job never calls a second
\* estimator, and a job that completes has called exactly the one requested.
EstimatorAfterTraining ==
    /\ []((jpc # "none" /\ (EstimatorActive \/ estimator_calls # <<>>)) =>
            /\ Len(loss_history) = req.num_epochs
            /\ opt_steps = req.num_epochs * StepsPerEpoch
            /\ sched_steps = opt_steps
            /\ jpc \notin {"train_loop", "forward", "optimizer", "scheduler", "zero_grad",
                           "epoch_end", "after_train"}
            /\ estimator_calls = <<method>>)
    /\ [](Completed => estimator_calls = <<method>> /\ "scores" \in DOMAIN job_result.influence)
    /\ [][/\ (EstimatorActive \/ estimator_calls # <<>>) =>
                /\ opt_steps' = opt_steps
                /\ sched_steps' = sched_steps
                /\ loss_history' = loss_history
          /\ (pc = "idle" /\ EstimatorActive') => estimator_calls = <<>>]_vars

\* a completed tracin job: two checkpoints were loaded after 20 epochs of training
EstimatorWitness ==
    /\ Completed
    /\ method = "tracin"
    /\ req.num_epochs = 20
    /\ Len(checkpoints) = 2
    /\ estimator_calls = <<"tracin">>

(***************************************************************************)
(* Properties of the order of compute_tracin's loops, checked under        *)
(* SpecEst.                                                                *)
(***************************************************************************)
\* sum over the checkpoints 1..k of lr_k * dot(eval gradient, training gradient)
RECURSIVE TracinPartial(_, _, _)
TracinPartial(k, ed, td) ==
    IF k = 0 THEN Zero
    ELSE RAdd(TracinPartial(k - 1, ed, td),
              RMul(learning_rates[k],
                   Dot(TableGrad(CkptWeights(k), ed), TableGrad(CkptWeights(k), td))))

\* every cell of the rows in rows holds the contributions of the checkpoints 1..k
RowsHold(rows, k) ==
    \A i \in rows : \A j \in 1..Len(training_data) :
       scores[i][j] = TracinPartial(k, eval_data[i], training_data[j])

\* C20: compute_tracin takes the checkpoints one after the other: while gradients
\* are computed for checkpoint k the model holds k's weights, the training
\* gradients in use are those under k's weights, and a checkpoint is loaded only
\* when every cell holds the contributions of all the checkpoints before it.
TracinSequential ==
    /\ [](method = "tracin" =>
            /\ pc \in {"train", "eval"} =>
                  /\ ckpt_idx \in 1..NumPairs
                  /\ AdapterWeights = CkptWeights(ckpt_idx)
            /\ pc = "train" => RowsHold(1..Len(eval_data), ckpt_idx - 1)
            /\ pc = "eval" =>
                  /\ train_grads = TrainGradsOf(CkptWeights(ckpt_idx))
                  /\ RowsHold(1..(eval_idx - 1), ckpt_idx)
                  /\ RowsHold(eval_idx..Len(eval_data), ckpt_idx - 1)
            /\ pc = "load" =>
                  /\ ckpt_idx \in 1..NumPairs
                  /\ RowsHold(1..Len(eval_data), ckpt_idx - 1)
            /\ pc = "return" => RowsHold(1..Len(eval_data), NumPairs))
    /\ [][method = "tracin" =>
            /\ heap' # heap => (pc = "load" /\ pc' = "train")
            /\ (pc \in {"train", "eval"} /\ pc' \in {"train", "eval"}) =>
                  ckpt_idx' = ckpt_idx
            /\ pc' = "load" => ckpt_idx' = ckpt_idx + 1]_vars

\* the second of two checkpoints with different weights is loaded and its first
\* row is about to be added to the first checkpoint's contributions
SequentialWitness ==
    /\ method = "tracin"
    /\ pc = "eval"
    /\ ckpt_idx = 2
    /\ CkptWeights(1) # CkptWeights(2)
    /\ Len(training_data) = 2
    /\ scores[1][1] # Zero
    /\ AdapterWeights = CkptWeights(2)

(***************************************************************************)
(* Properties of the weights at evaluation, checked under SpecTrain.       *)
(***************************************************************************)
\* the adapter weights after the last optimizer update of training: every update
\* adds one to the weight value, which starts at 0
TrainedWeights == opt_steps

\* C21: when run_eval starts, and in the evaluation a completed job reports, the
\* model's adapter holds the weights it had at the end of training.
EvalUnderTrainedWeights ==
    /\ (jpc = "run_eval" /\ method \in Methods) => AdapterWeights = TrainedWeights
    /\ Completed => job_result.eval_weights = TrainedWeights

\* the same for the jobs whose estimator loads nothing, or whose last checkpoint,
\* the fallback or the snapshot of the last epoch, is the end of training
EvalUnderTrainedWeightsUnlessStale ==
    (method \in {"datainf", "kronfluence"} \/ req.num_epochs < 10 \/ req.num_epochs % 10 = 0) =>
        EvalUnderTrainedWeights

\* a tracin job evaluated under the weights of its last checkpoint
EvalUnderCheckpointWeights ==
    (jpc = "run_eval" /\ method = "tracin") =>
        AdapterWeights = CkptWeights(Len(checkpoints))

(***************************************************************************)
(* Properties of the updates the handler yields, checked under SpecTrain   *)
(* and SpecHandler.                                                        *)
(***************************************************************************)
\* the place of a status in the order of the pipeline's stages
StatusRank(status) ==
    CASE status = "starting" -> 1
      [] status = "training" -> 2
      [] status = "computing_influence" -> 3
      [] status = "running_eval" -> 4
      [] OTHER -> 0

\* the handler has returned its one result
HasResult == job_result # [status |-> "none"]

\* the place of a position of the handler in the order of its statements
StageRank(position) ==
    CASE position = "request" -> 0
      [] position = "load" -> 1
      [] position = "train_loop" -> 2
      [] position \in {"forward", "optimizer", "scheduler", "zero_grad", "epoch_end"} -> 3
      [] position = "after_train" -> 4
      [] position = "influence" -> 5
      [] position = "estimating" -> 6
      [] position = "run_eval" -> 7
      [] position = "raised" -> 8
      [] position = "done" -> 9
      [] OTHER -> 0

\* how far the epoch loop has come: epochs, then batches, then steps of a batch
LoopElapsed ==
    LET perEpoch == 4 * Len(training_data) + 2
        inBatch == CASE jpc = "forward" -> 0
                     [] jpc = "optimizer" -> 1
                     [] jpc = "scheduler" -> 2
                     [] jpc = "zero_grad" -> 3
                     [] OTHER -> 0
    IN  IF jpc = "epoch_end" THEN epoch * perEpoch + perEpoch - 1
        ELSE IF StageRank(jpc) = 3 THEN epoch * perEpoch + 4 * num_batches + inBatch
        ELSE 0

\* how far the estimator has come: checkpoints, then the loops of a checkpoint
EstimatorElapsed ==
    LET perCkpt == Len(eval_data) + 3
    IN  CASE pc = "start" -> 0
          [] pc = "load" -> ckpt_idx * perCkpt
          [] pc = "train" -> ckpt_idx * perCkpt + 1
          [] pc = "eval" -> ckpt_idx * perCkpt + 1 + eval_idx
          [] pc = "return" -> (MaxEpochs + 2) * perCkpt
          [] pc = "done" -> (MaxEpochs + 3) * perCkpt
          [] OTHER -> 0

\* the steps made so far, as a number that is at most 10 * 10000
Elapsed == StageRank(jpc) * 10000 + LoopElapsed + EstimatorElapsed

\* C22: the progress values of the yielded updates never decrease and lie in
\* [0, 1]; the statuses come in the order starting, training,
\* computing_influence, running_eval; a completed job has yielded all four; the
\* handler's result, a completed payload or an error result, is set once, when
\* the handler ends, and nothing is yielded after it; and every step brings the
\* handler nearer to its end, so that no job runs for ever.
UpdatesInOrder ==
    /\ [](jpc # "none" =>
            /\ \A k \in 1..Len(yielded) :
                  /\ RLeq(Zero, yielded[k].progress) /\ RLeq(yielded[k].progress, One)
                  /\ StatusRank(yielded[k].status) \in 1..4
                  /\ k > 1 =>
                        /\ RLeq(yielded[k - 1].progress, yielded[k].progress)
                        /\ StatusRank(yielded[k - 1].status) <= StatusRank(yielded[k].status)
            /\ yielded # <<>> => yielded[1].status = "starting"
            /\ HasResult <=> jpc = "done"
            /\ HasResult => (Completed \/ DOMAIN job_result = {"error", "suggestion"})
            /\ Completed =>
                  {StatusRank(yielded[k].status) : k \in 1..Len(yielded)} = 1..4
            /\ LoopElapsed + EstimatorElapsed < 10000)
    /\ [][jpc # "none" =>
            /\ HasResult => (job_result' = job_result /\ yielded' = yielded)
            /\ job_result' # job_result => (jpc # "done" /\ jpc' = "done")
            /\ Elapsed' > Elapsed]_vars

\* a completed job of 20 epochs: six updates, the third the progress of the last epoch
UpdatesWitness ==
    /\ Completed
    /\ req.num_epochs = 20
    /\ Len(yielded) = 6
    /\ yielded[3].status = "training" /\ yielded[3].progress = Rat(6, 10)
    /\ yielded[6].status = "running_eval"

====
